---- MODULE Spec2Model ----
(***************************************************************************)
(* Model of chumsky's zero-copy parser primitives                          *)
(* (src/zero_copy/primitive.rs): End, Empty, Just, OneOf, NoneOf, Any,     *)
(* TakeUntil, Todo, Choice and Group, run over a cursor (InputRef) in the  *)
(* two evaluation modes Emit and Check.                                    *)
(*                                                                         *)
(* A parser is a value [kind, seq, subs].  Each `go` of the source is an   *)
(* operator XGo(..., m, pos) from the mode and the cursor offset at entry  *)
(* to a result [st, pos, out, err, calls]: st is "ok" (Ok), "err" (Err) or *)
(* "panic" (todo!), pos is the cursor offset when go returns, and calls    *)
(* lists, in order, the sub-parser invocations go made, each with the      *)
(* sub-parser, the cursor offset it started from and its own result.       *)
(***************************************************************************)
EXTENDS Integers, Sequences, FiniteSets, TLC

VARIABLES input, parser, mode, entry, pc, result

vars == <<input, parser, mode, entry, pc, result>>

\* ------------------------------------------------------------ bounds
\* Longest input, in tokens.
MaxInputLen == 3
\* Longest sequence given to just().
MaxSeqLen == 2
\* Largest tuple given to choice() and group().
MaxArity == 2

\* ------------------------------------------------------------ values
Tokens == {"a", "b"}

\* Option<Token>::None: what InputRef::next reports at end of input.
None == "none"

Modes == {"Emit", "Check"}

\* The unit value (), also the output of every parser in Check mode.
Unit == <<>>

\* All sequences over S of length at most n.
SeqsUpTo(S, n) == UNION {[1..k -> S] : k \in 0..n}

Inputs == SeqsUpTo(Tokens, MaxInputLen)

\* ------------------------------------------------------------ cursor
\* InputRef::save: the marker is the offset.
Save(pos) == pos

\* InputRef::rewind: the cursor is put back at the marker.
Rewind(marker) == marker

\* InputRef::next: the offset before the read, the token read (None at end
\* of input), and the offset after: one further on a token, unmoved at end.
InpNext(pos) ==
  IF pos < Len(input)
    THEN [at |-> pos, tok |-> input[pos + 1], pos |-> pos + 1]
    ELSE [at |-> pos, tok |-> None, pos |-> pos]

\* InputRef::span_since: from the marker to the cursor.
SpanSince(before, pos) == <<before, pos>>

\* InputRef::last_pos: the position of the most recent read.
LastPos(pos) == pos

\* ------------------------------------------------------------ modes
\* Mode::bind: Emit builds the value, Check builds nothing.
MBind(m, v) == IF m = "Emit" THEN v ELSE Unit

\* Mode::map: Emit applies the function (v is its result), Check does not.
MMap(m, v) == IF m = "Emit" THEN v ELSE Unit

\* Mode::combine: Emit combines both values (v is the result), Check does not.
MCombine(m, v) == IF m = "Emit" THEN v ELSE Unit

\* ------------------------------------------------------------ errors
\* Error::expected_found.
ExpectedFound(expected, found, span) ==
  [expected |-> expected, found |-> found, span |-> span]

\* Located::at.
LocatedAt(at, err) == [pos |-> at, err |-> err]

\* The absent error: Option<Located<E>>::None, and the err field of a result
\* that is no failure.
NoErr == LocatedAt(-1, ExpectedFound({}, None, <<0, 0>>))

SpanLen(span) == span[2] - span[1]

\* Error::merge: the union of the expected sets, with the found token and the
\* span of the error that covers the larger (or equal) span.
Merge(a, b) ==
  IF SpanLen(a.span) >= SpanLen(b.span)
    THEN ExpectedFound(a.expected \cup b.expected, a.found, a.span)
    ELSE ExpectedFound(a.expected \cup b.expected, b.found, b.span)

\* Located::prioritize with merge as its merge function: at the same
\* position the errors are merged, otherwise the later one is kept.
Prioritize(a, b) ==
  IF a.pos = b.pos THEN LocatedAt(a.pos, Merge(a.err, b.err))
  ELSE IF a.pos > b.pos THEN a
  ELSE b

\* ------------------------------------------------------------ results
\* PResult: Ok(out), with the cursor at pos.
ROk(pos, out, calls) ==
  [st |-> "ok", pos |-> pos, out |-> out, err |-> NoErr, calls |-> calls]

\* PResult: Err(err), with the cursor at pos.
RErr(pos, err, calls) ==
  [st |-> "err", pos |-> pos, out |-> Unit, err |-> err, calls |-> calls]

\* A panic unwinding out of go, with the cursor at pos.
RPanic(pos, calls) ==
  [st |-> "panic", pos |-> pos, out |-> Unit, err |-> NoErr, calls |-> calls]

\* One sub-parser invocation: which element of the tuple, the parser, the
\* cursor offset it started from, and what it returned.
Call(idx, p, from, res) == [idx |-> idx, p |-> p, from |-> from, res |-> res]

\* ------------------------------------------------------------ parsers
Mk(kind, seq, subs) == [kind |-> kind, seq |-> seq, subs |-> subs]

end == Mk("End", <<>>, <<>>)
empty == Mk("Empty", <<>>, <<>>)
just(seq) == Mk("Just", seq, <<>>)
one_of(seq) == Mk("OneOf", seq, <<>>)
none_of(seq) == Mk("NoneOf", seq, <<>>)
any == Mk("Any", <<>>, <<>>)
take_until(until) == Mk("TakeUntil", <<>>, <<until>>)
todo == Mk("Todo", <<>>, <<>>)
choice(parsers) == Mk("Choice", <<>>, parsers)
group(parsers) == Mk("Group", <<>>, parsers)

\* The elements of a sequence.
Range(s) == {s[i] : i \in 1..Len(s)}

RECURSIVE Go(_, _, _)

\* End::go that rewinds to where it started when it finds a token.
EndGoRewinds(m, pos) ==
  LET before == Save(pos)
      n == InpNext(pos)
  IN IF n.tok = None
       THEN ROk(n.pos, MBind(m, Unit), <<>>)
       ELSE RErr(Rewind(before),
                 LocatedAt(n.at, ExpectedFound({}, n.tok, SpanSince(before, n.pos))),
                 <<>>)

\* End::go.
EndGo(m, pos) ==
  LET before == Save(pos)
      n == InpNext(pos)
  IN IF n.tok = None
       THEN ROk(n.pos, MBind(m, Unit), <<>>)
       ELSE RErr(n.pos,
                 LocatedAt(n.at, ExpectedFound({}, n.tok, SpanSince(before, n.pos))),
                 <<>>)

\* Empty::go.
EmptyGo(m, pos) == ROk(pos, MBind(m, Unit), <<>>)

\* Just::go that reports every item of seq as expected.
RECURSIVE JustLoopExpectsAll(_, _, _, _)
JustLoopExpectsAll(seq, i, m, pos) ==
  IF i > Len(seq)
    THEN ROk(pos, MBind(m, seq), <<>>)
    ELSE LET before == Save(pos)
             n == InpNext(pos)
         IN IF n.tok # None /\ seq[i] = n.tok
              THEN JustLoopExpectsAll(seq, i + 1, m, n.pos)
              ELSE RErr(n.pos,
                        LocatedAt(n.at,
                                  ExpectedFound(Range(seq), n.tok, SpanSince(before, n.pos))),
                        <<>>)

\* Just::go that puts the cursor back before the token that did not match.
RECURSIVE JustLoopRewinds(_, _, _, _)
JustLoopRewinds(seq, i, m, pos) ==
  IF i > Len(seq)
    THEN ROk(pos, MBind(m, seq), <<>>)
    ELSE LET before == Save(pos)
             n == InpNext(pos)
         IN IF n.tok # None /\ seq[i] = n.tok
              THEN JustLoopRewinds(seq, i + 1, m, n.pos)
              ELSE RErr(Rewind(before),
                        LocatedAt(n.at,
                                  ExpectedFound({seq[i]}, n.tok, SpanSince(before, n.pos))),
                        <<>>)

\* Just::go, the loop from the i-th item of seq on, the cursor at pos.
RECURSIVE JustLoop(_, _, _, _)
JustLoop(seq, i, m, pos) ==
  IF i > Len(seq)
    THEN ROk(pos, MBind(m, seq), <<>>)
    ELSE LET before == Save(pos)
             n == InpNext(pos)
         IN IF n.tok # None /\ seq[i] = n.tok
              THEN JustLoop(seq, i + 1, m, n.pos)
              ELSE RErr(n.pos,
                        LocatedAt(n.at,
                                  ExpectedFound({seq[i]}, n.tok, SpanSince(before, n.pos))),
                        <<>>)

\* Just::go.
JustGo(seq, m, pos) == JustLoop(seq, 1, m, pos)

\* OneOf::go.
OneOfGo(seq, m, pos) ==
  LET before == Save(pos)
      n == InpNext(pos)
  IN IF n.tok # None /\ (\E i \in 1..Len(seq) : seq[i] = n.tok)
       THEN ROk(n.pos, MBind(m, n.tok), <<>>)
       ELSE RErr(n.pos,
                 LocatedAt(n.at,
                           ExpectedFound(Range(seq), n.tok, SpanSince(before, n.pos))),
                 <<>>)

\* NoneOf::go that accepts a token when any item of seq differs from it.
NoneOfGoAnyDiffers(seq, m, pos) ==
  LET before == Save(pos)
      n == InpNext(pos)
  IN IF n.tok # None /\ (\E i \in 1..Len(seq) : seq[i] # n.tok)
       THEN ROk(n.pos, MBind(m, n.tok), <<>>)
       ELSE RErr(n.pos,
                 LocatedAt(n.at, ExpectedFound({}, n.tok, SpanSince(before, n.pos))),
                 <<>>)

\* NoneOf::go.
NoneOfGo(seq, m, pos) ==
  LET before == Save(pos)
      n == InpNext(pos)
  IN IF n.tok # None /\ (\A i \in 1..Len(seq) : seq[i] # n.tok)
       THEN ROk(n.pos, MBind(m, n.tok), <<>>)
       ELSE RErr(n.pos,
                 LocatedAt(n.at, ExpectedFound({}, n.tok, SpanSince(before, n.pos))),
                 <<>>)

\* Any::go.
AnyGo(m, pos) ==
  LET before == Save(pos)
      n == InpNext(pos)
  IN IF n.tok # None
       THEN ROk(n.pos, MBind(m, n.tok), <<>>)
       ELSE RErr(n.pos,
                 LocatedAt(n.at, ExpectedFound({}, n.tok, SpanSince(before, n.pos))),
                 <<>>)

\* TakeUntil::go without the rewind after a failed attempt: the token skipped
\* is the one after those the terminator read.
RECURSIVE TakeUntilLoopNoRewind(_, _, _, _, _)
TakeUntilLoopNoRewind(until, m, pos, output, calls) ==
  LET start == Save(pos)
      r == Go(until, m, pos)
      cs == Append(calls, Call(1, until, pos, r))
  IN CASE r.st = "ok" -> ROk(r.pos, MCombine(m, <<output, r.out>>), cs)
       [] r.st = "panic" -> RPanic(r.pos, cs)
       [] OTHER ->
            LET n == InpNext(r.pos)
            IN IF n.tok # None
                 THEN TakeUntilLoopNoRewind(until, m, n.pos,
                                            MMap(m, Append(output, n.tok)), cs)
                 ELSE RErr(n.pos, r.err, cs)

\* TakeUntil::go that returns the error of its first attempt.
RECURSIVE TakeUntilLoopFirstError(_, _, _, _, _)
TakeUntilLoopFirstError(until, m, pos, output, calls) ==
  LET start == Save(pos)
      r == Go(until, m, pos)
      cs == Append(calls, Call(1, until, pos, r))
  IN CASE r.st = "ok" -> ROk(r.pos, MCombine(m, <<output, r.out>>), cs)
       [] r.st = "panic" -> RPanic(r.pos, cs)
       [] OTHER ->
            LET n == InpNext(Rewind(start))
            IN IF n.tok # None
                 THEN TakeUntilLoopFirstError(until, m, n.pos,
                                              MMap(m, Append(output, n.tok)), cs)
                 ELSE RErr(n.pos, cs[1].res.err, cs)

\* TakeUntil::go, one turn of the loop and those after it: the cursor at pos,
\* the tokens skipped so far in output.
RECURSIVE TakeUntilLoop(_, _, _, _, _)
TakeUntilLoop(until, m, pos, output, calls) ==
  LET start == Save(pos)
      r == Go(until, m, pos)
      cs == Append(calls, Call(1, until, pos, r))
  IN CASE r.st = "ok" -> ROk(r.pos, MCombine(m, <<output, r.out>>), cs)
       [] r.st = "panic" -> RPanic(r.pos, cs)
       [] OTHER ->
            LET n == InpNext(Rewind(start))
            IN IF n.tok # None
                 THEN TakeUntilLoop(until, m, n.pos, MMap(m, Append(output, n.tok)), cs)
                 ELSE RErr(n.pos, r.err, cs)

\* TakeUntil::go.
TakeUntilGo(until, m, pos) ==
  TakeUntilLoop(until, m, pos, MBind(m, <<>>), <<>>)

\* Todo::go that reports an ordinary failure where it stands instead of
\* panicking.
TodoGoFails(m, pos) ==
  RErr(pos, LocatedAt(pos, ExpectedFound({}, None, SpanSince(pos, pos))), <<>>)

\* Todo::go: todo!() panics, whatever the mode and the input.
TodoGo(m, pos) == RPanic(pos, <<>>)

\* Choice::go without the rewind after a failed parser: the next one starts
\* where the failed one stopped.
RECURSIVE ChoiceLoopNoRewind(_, _, _, _, _, _, _)
ChoiceLoopNoRewind(parsers, i, m, before, pos, err, calls) ==
  IF i > Len(parsers)
    THEN RErr(pos,
              IF err = NoErr
                THEN LocatedAt(LastPos(pos),
                               ExpectedFound({}, None, SpanSince(before, pos)))
                ELSE err,
              calls)
    ELSE LET r == Go(parsers[i], m, pos)
             cs == Append(calls, Call(i, parsers[i], pos, r))
         IN CASE r.st = "ok" -> ROk(r.pos, r.out, cs)
              [] r.st = "panic" -> RPanic(r.pos, cs)
              [] OTHER ->
                   ChoiceLoopNoRewind(parsers, i + 1, m, before, r.pos,
                                      IF err = NoErr THEN r.err ELSE Prioritize(err, r.err),
                                      cs)

\* Choice::go that goes on after a success and returns the last parser to
\* succeed.
RECURSIVE ChoiceLoopLastSuccess(_, _, _, _, _, _, _)
ChoiceLoopLastSuccess(parsers, i, m, before, pos, err, calls) ==
  IF i > Len(parsers)
    THEN RErr(pos,
              IF err = NoErr
                THEN LocatedAt(LastPos(pos),
                               ExpectedFound({}, None, SpanSince(before, pos)))
                ELSE err,
              calls)
    ELSE LET r == Go(parsers[i], m, pos)
             cs == Append(calls, Call(i, parsers[i], pos, r))
         IN CASE r.st = "ok" ->
                   LET later == ChoiceLoopLastSuccess(parsers, i + 1, m, before,
                                                      Rewind(before), err, cs)
                   IN IF later.st = "ok" THEN later ELSE ROk(r.pos, r.out, cs)
              [] r.st = "panic" -> RPanic(r.pos, cs)
              [] OTHER ->
                   ChoiceLoopLastSuccess(parsers, i + 1, m, before, Rewind(before),
                                         IF err = NoErr THEN r.err ELSE Prioritize(err, r.err),
                                         cs)

\* Choice::go that keeps the error of the parser that failed last, whatever
\* its position.
RECURSIVE ChoiceLoopLatestError(_, _, _, _, _, _, _)
ChoiceLoopLatestError(parsers, i, m, before, pos, err, calls) ==
  IF i > Len(parsers)
    THEN RErr(pos,
              IF err = NoErr
                THEN LocatedAt(LastPos(pos),
                               ExpectedFound({}, None, SpanSince(before, pos)))
                ELSE err,
              calls)
    ELSE LET r == Go(parsers[i], m, pos)
             cs == Append(calls, Call(i, parsers[i], pos, r))
         IN CASE r.st = "ok" -> ROk(r.pos, r.out, cs)
              [] r.st = "panic" -> RPanic(r.pos, cs)
              [] OTHER ->
                   ChoiceLoopLatestError(parsers, i + 1, m, before, Rewind(before),
                                         r.err, cs)

\* Choice::go from the i-th parser of the tuple on: the cursor at pos, the
\* marker before, the running error err.
RECURSIVE ChoiceLoop(_, _, _, _, _, _, _)
ChoiceLoop(parsers, i, m, before, pos, err, calls) ==
  IF i > Len(parsers)
    THEN RErr(pos,
              IF err = NoErr
                THEN LocatedAt(LastPos(pos),
                               ExpectedFound({}, None, SpanSince(before, pos)))
                ELSE err,
              calls)
    ELSE LET r == Go(parsers[i], m, pos)
             cs == Append(calls, Call(i, parsers[i], pos, r))
         IN CASE r.st = "ok" -> ROk(r.pos, r.out, cs)
              [] r.st = "panic" -> RPanic(r.pos, cs)
              [] OTHER ->
                   ChoiceLoop(parsers, i + 1, m, before, Rewind(before),
                              IF err = NoErr THEN r.err ELSE Prioritize(err, r.err),
                              cs)

\* Choice::go.
ChoiceGo(parsers, m, pos) ==
  ChoiceLoop(parsers, 1, m, Save(pos), pos, NoErr, <<>>)

\* flatten_map!: the outputs as one tuple.
FlattenMap(m, outs) ==
  IF Len(outs) = 1 THEN MMap(m, outs) ELSE MCombine(m, outs)

\* Group::go that in Check mode stops after its first parser.
RECURSIVE GroupLoopCheckStopsEarly(_, _, _, _, _, _)
GroupLoopCheckStopsEarly(parsers, i, m, pos, outs, calls) ==
  IF i > Len(parsers) \/ (m = "Check" /\ i > 1)
    THEN ROk(pos, FlattenMap(m, outs), calls)
    ELSE LET r == Go(parsers[i], m, pos)
             cs == Append(calls, Call(i, parsers[i], pos, r))
         IN CASE r.st = "ok" ->
                   GroupLoopCheckStopsEarly(parsers, i + 1, m, r.pos,
                                            Append(outs, r.out), cs)
              [] r.st = "panic" -> RPanic(r.pos, cs)
              [] OTHER -> RErr(r.pos, r.err, cs)

\* Group::go that rewinds to where the Group started when a parser fails.
RECURSIVE GroupLoopRewinds(_, _, _, _, _, _)
GroupLoopRewinds(parsers, i, m, pos, outs, calls) ==
  IF i > Len(parsers)
    THEN ROk(pos, FlattenMap(m, outs), calls)
    ELSE LET r == Go(parsers[i], m, pos)
             cs == Append(calls, Call(i, parsers[i], pos, r))
         IN CASE r.st = "ok" ->
                   GroupLoopRewinds(parsers, i + 1, m, r.pos, Append(outs, r.out), cs)
              [] r.st = "panic" -> RPanic(r.pos, cs)
              [] OTHER -> RErr(Rewind(cs[1].from), r.err, cs)

\* Group::go from the i-th parser of the tuple on: the cursor at pos, the
\* outputs so far in outs.
RECURSIVE GroupLoop(_, _, _, _, _, _)
GroupLoop(parsers, i, m, pos, outs, calls) ==
  IF i > Len(parsers)
    THEN ROk(pos, FlattenMap(m, outs), calls)
    ELSE LET r == Go(parsers[i], m, pos)
             cs == Append(calls, Call(i, parsers[i], pos, r))
         IN CASE r.st = "ok" -> GroupLoop(parsers, i + 1, m, r.pos, Append(outs, r.out), cs)
              [] r.st = "panic" -> RPanic(r.pos, cs)
              [] OTHER -> RErr(r.pos, r.err, cs)

\* Group::go.
GroupGo(parsers, m, pos) == GroupLoop(parsers, 1, m, pos, <<>>, <<>>)

\* Parser::go, by the parser's type.
Go(p, m, pos) ==
  CASE p.kind = "End" -> EndGo(m, pos)
    [] p.kind = "Empty" -> EmptyGo(m, pos)
    [] p.kind = "Just" -> JustGo(p.seq, m, pos)
    [] p.kind = "OneOf" -> OneOfGo(p.seq, m, pos)
    [] p.kind = "NoneOf" -> NoneOfGo(p.seq, m, pos)
    [] p.kind = "Any" -> AnyGo(m, pos)
    [] p.kind = "TakeUntil" -> TakeUntilGo(p.subs[1], m, pos)
    [] p.kind = "Todo" -> TodoGo(m, pos)
    [] p.kind = "Choice" -> ChoiceGo(p.subs, m, pos)
    [] p.kind = "Group" -> GroupGo(p.subs, m, pos)

\* ------------------------------------------------------------ the parsers run
\* The sequences given to one_of() and none_of(): one per set of tokens.
SetSeqs == {<<>>, <<"a">>, <<"b">>, <<"a", "b">>}

\* The primitives.
Prims ==
  {end, empty, any, todo}
    \cup {just(s) : s \in SeqsUpTo(Tokens, MaxSeqLen)}
    \cup {one_of(s) : s \in SetSeqs}
    \cup {none_of(s) : s \in SetSeqs}

\* The parsers put in the tuples of choice() and group(): primitives that
\* succeed or fail with and without consuming, and two combinators, one that
\* fails at end of input and one that rewinds when it fails.
Atoms ==
  {end, empty, any, todo,
   just(<<"a">>), just(<<"b">>), just(<<"a", "a">>), just(<<"a", "b">>),
   take_until(just(<<"b">>)),
   choice(<<just(<<"a", "b">>), just(<<"b">>)>>)}

\* The tuples over S of 1 to n parsers.
Tuples(S, n) == UNION {[1..k -> S] : k \in 1..n}

Parsers ==
  Prims
    \cup {take_until(p) : p \in Prims}
    \cup {choice(t) : t \in Tuples(Atoms, MaxArity)}
    \cup {group(t) : t \in Tuples(Atoms, MaxArity)}

\* Before go is called: no mode chosen, no result.
NoMode == "none"
NoResult == RErr(-1, NoErr, <<>>)

\* ------------------------------------------------------------ state machine
\* A parser has been built and the cursor stands at offset entry of the input.
\* The tokens before the cursor have been consumed and are not read again:
\* they are taken to be all "a".
Init ==
  /\ input \in Inputs
  /\ parser \in Parsers
  /\ entry \in 0..Len(input)
  /\ \A i \in 1..entry : input[i] = "a"
  /\ mode = NoMode
  /\ pc = "ready"
  /\ result = NoResult

\* The caller runs go::<m> of the parser, of the given type, from entry.
Run(kind, m, res) ==
  /\ pc = "ready"
  /\ parser.kind = kind
  /\ mode' = m
  /\ result' = res
  /\ pc' = "done"
  /\ UNCHANGED <<input, parser, entry>>

RunEnd == \E m \in Modes : Run("End", m, EndGo(m, entry))
RunEmpty == \E m \in Modes : Run("Empty", m, EmptyGo(m, entry))
RunJust == \E m \in Modes : Run("Just", m, JustGo(parser.seq, m, entry))
RunOneOf == \E m \in Modes : Run("OneOf", m, OneOfGo(parser.seq, m, entry))
RunNoneOf == \E m \in Modes : Run("NoneOf", m, NoneOfGo(parser.seq, m, entry))
RunAny == \E m \in Modes : Run("Any", m, AnyGo(m, entry))
RunTakeUntil ==
  \E m \in Modes : Run("TakeUntil", m, TakeUntilGo(parser.subs[1], m, entry))
RunTodo == \E m \in Modes : Run("Todo", m, TodoGo(m, entry))
RunChoice == \E m \in Modes : Run("Choice", m, ChoiceGo(parser.subs, m, entry))
RunGroup == \E m \in Modes : Run("Group", m, GroupGo(parser.subs, m, entry))

Next ==
  \/ RunEnd
  \/ RunEmpty
  \/ RunJust
  \/ RunOneOf
  \/ RunNoneOf
  \/ RunAny
  \/ RunTakeUntil
  \/ RunTodo
  \/ RunChoice
  \/ RunGroup

Spec == Init /\ [][Next]_vars

\* ------------------------------------------------------------ TakeUntil, turn by turn
\* TakeUntil::go in the middle of its loop: the cursor at pos, the tokens
\* skipped so far in out, the terminator's attempts so far in calls.
RLoop(pos, out, calls) ==
  [st |-> "loop", pos |-> pos, out |-> out, err |-> NoErr, calls |-> calls]

\* One turn of TakeUntil::go's loop that, after a failed attempt, rewinds and
\* goes round again without reading the token to skip.
TakeUntilTurnStays(until, m, pos, output, calls) ==
  LET start == Save(pos)
      r == Go(until, m, pos)
      cs == Append(calls, Call(1, until, pos, r))
  IN CASE r.st = "ok" -> ROk(r.pos, MCombine(m, <<output, r.out>>), cs)
       [] r.st = "panic" -> RPanic(r.pos, cs)
       [] OTHER ->
            LET n == InpNext(Rewind(start))
            IN IF n.tok # None
                 THEN RLoop(Rewind(start), MMap(m, Append(output, n.tok)), cs)
                 ELSE RErr(n.pos, r.err, cs)

\* One turn of TakeUntil::go's loop, the cursor at pos: the terminator's
\* attempt, then the break with its output, or the rewind and the read of the
\* token to skip, which goes round again, or breaks with the error at the end
\* of the input.
TakeUntilTurn(until, m, pos, output, calls) ==
  LET start == Save(pos)
      r == Go(until, m, pos)
      cs == Append(calls, Call(1, until, pos, r))
  IN CASE r.st = "ok" -> ROk(r.pos, MCombine(m, <<output, r.out>>), cs)
       [] r.st = "panic" -> RPanic(r.pos, cs)
       [] OTHER ->
            LET n == InpNext(Rewind(start))
            IN IF n.tok # None
                 THEN RLoop(n.pos, MMap(m, Append(output, n.tok)), cs)
                 ELSE RErr(n.pos, r.err, cs)

\* The terminators of the TakeUntil run turn by turn.
Terminators == Prims \cup Atoms

\* A TakeUntil has been built and the cursor stands at offset entry.
InitTakeUntil ==
  /\ input \in Inputs
  /\ parser \in {take_until(p) : p \in Terminators}
  /\ entry \in 0..Len(input)
  /\ \A i \in 1..entry : input[i] = "a"
  /\ mode = NoMode
  /\ pc = "ready"
  /\ result = NoResult

\* The caller enters TakeUntil::go::<m>: the accumulator starts empty.
TakeUntilEnter ==
  /\ pc = "ready"
  /\ \E m \in Modes :
       /\ mode' = m
       /\ result' = RLoop(entry, MBind(m, <<>>), <<>>)
  /\ pc' = "loop"
  /\ UNCHANGED <<input, parser, entry>>

\* The turn the loop is about to make.
ThisTurn ==
  TakeUntilTurn(parser.subs[1], mode, result.pos, result.out, result.calls)

\* The loop makes its turn, which leaves it in pc.
Turn(next) ==
  /\ result' = ThisTurn
  /\ pc' = next
  /\ UNCHANGED <<input, parser, mode, entry>>

\* The terminator succeeded: break Ok.
TakeUntilBreakOk ==
  /\ pc = "loop"
  /\ ThisTurn.st = "ok"
  /\ Turn("done")

\* The terminator failed and a token was skipped: the loop goes round again.
TakeUntilContinue ==
  /\ pc = "loop"
  /\ ThisTurn.st = "loop"
  /\ Turn("loop")

\* The terminator failed at the end of the input: break Err.
TakeUntilBreakErr ==
  /\ pc = "loop"
  /\ ThisTurn.st = "err"
  /\ Turn("done")

\* The terminator panicked: the panic unwinds out of the loop.
TakeUntilUnwind ==
  /\ pc = "loop"
  /\ ThisTurn.st = "panic"
  /\ Turn("done")

NextTakeUntil ==
  \/ TakeUntilEnter
  \/ TakeUntilBreakOk
  \/ TakeUntilContinue
  \/ TakeUntilBreakErr
  \/ TakeUntilUnwind

\* The loop runs in the caller's thread and each turn ends, as each attempt
\* of the terminator does: a turn that can be taken is taken.
SpecTakeUntil ==
  InitTakeUntil /\ [][NextTakeUntil]_vars /\ WF_vars(NextTakeUntil)

\* ------------------------------------------------------------ shorthands
Done == pc = "done"

\* The token the cursor stands on at offset pos, None at end of input.
TokenAt(pos) == IF pos < Len(input) THEN input[pos + 1] ELSE None

OtherMode(m) == IF m = "Emit" THEN "Check" ELSE "Emit"

\* Every invocation of the run, the caller's first, each followed by the
\* invocations made under it.
RECURSIVE Flat(_)
RECURSIVE FlatSeq(_, _)
FlatSeq(cs, i) == IF i > Len(cs) THEN <<>> ELSE Flat(cs[i]) \o FlatSeq(cs, i + 1)
Flat(c) == <<c>> \o FlatSeq(c.res.calls, 1)

Invocations == Flat(Call(0, parser, entry, result))

\* The types of parser p is built from.
RECURSIVE Kinds(_)
Kinds(p) == {p.kind} \cup UNION {Kinds(p.subs[i]) : i \in 1..Len(p.subs)}

\* P holds of every invocation of a parser of the given type.
Each(kind, P(_)) ==
  kind \in Kinds(parser) =>
    LET inv == Invocations
    IN \A i \in 1..Len(inv) : inv[i].p.kind = kind => P(inv[i])

\* P holds of some invocation of a parser of the given type.
Some(kind, P(_)) ==
  LET inv == Invocations
  IN \E i \in 1..Len(inv) : inv[i].p.kind = kind /\ P(inv[i])

\* What each parser of invocation c's tuple does when run from c's entry.
FromEntry(c) == [i \in 1..Len(c.p.subs) |-> Go(c.p.subs[i], mode, c.from)]

\* ------------------------------------------------------------ C1
\* What C1 says of one invocation c.
C1_ChoiceNoLeakAt(c) ==
  LET rs == FromEntry(c)
  IN /\ \A i \in 1..Len(c.res.calls) : c.res.calls[i].from = c.from
     /\ (\A i \in 1..Len(rs) : rs[i].st = "err")
          => /\ c.res.st = "err"
             /\ c.res.pos = c.from
             /\ Len(c.res.calls) = Len(c.p.subs)

\* C1: every parser a Choice runs starts with the cursor where it was when the
\* Choice was entered, whatever the failed ones before it consumed, and when
\* all of them fail the Choice returns with the cursor at its entry again.
C1_ChoiceNoLeak ==
  Done => Each("Choice", C1_ChoiceNoLeakAt)

\* Invocation c was entered after the start of the input, its first parser
\* failed two tokens on, and its second was then run, and failed too.
C1_WitnessAt(c) ==
  /\ c.from > 0
  /\ Len(c.res.calls) = 2
  /\ c.res.calls[1].res.st = "err"
  /\ c.res.calls[1].res.pos = c.from + 2
  /\ c.res.st = "err"

\* A Choice run inside a Group, of which that is true.
C1_Witness ==
  /\ Done
  /\ parser.kind = "Group"
  /\ Some("Choice", C1_WitnessAt)

\* ------------------------------------------------------------ C2
ModeKinds ==
  {"End", "Empty", "Just", "OneOf", "NoneOf", "Any", "TakeUntil", "Choice", "Group"}

\* C2: the Check-mode and the Emit-mode run of a parser built from End, Empty,
\* Just, OneOf, NoneOf, Any, TakeUntil, Choice and Group, on the same input
\* from the same offset, both succeed or both fail, with the same error, and
\* leave the cursor at the same offset; the Check-mode run has no output.
C2_ModeEquivalence ==
  (Done /\ Kinds(parser) \subseteq ModeKinds) =>
    LET other == Go(parser, OtherMode(mode), entry)
    IN /\ other.st = result.st
       /\ other.pos = result.pos
       /\ other.err = result.err
       /\ mode = "Check" => result.out = Unit
       /\ mode = "Emit" => other.out = Unit

\* An Emit-mode run of a TakeUntil that skipped tokens, moved the cursor and
\* built an output, where the Check-mode run builds none.
C2_Witness ==
  /\ Done
  /\ mode = "Emit"
  /\ parser.kind = "TakeUntil"
  /\ result.st = "ok"
  /\ result.pos > entry + 1
  /\ Len(result.out) = 2
  /\ Len(result.out[1]) >= 1
  /\ Go(parser, "Check", entry).out = Unit

\* ------------------------------------------------------------ C3
\* The first of the results rs that is a success, 0 if none is.
FirstOk(rs) ==
  LET ok == {i \in 1..Len(rs) : rs[i].st = "ok"}
  IN IF ok = {} THEN 0 ELSE CHOOSE i \in ok : \A j \in ok : i <= j

\* What C3 says of one invocation c.
C3_ChoiceFirstSuccessAt(c) ==
  LET rs == FromEntry(c)
      k == FirstOk(rs)
  IN (k > 0 /\ \A j \in 1..(k - 1) : rs[j].st = "err")
       => /\ c.res.st = "ok"
          /\ c.res.out = rs[k].out
          /\ c.res.pos = rs[k].pos
          /\ Len(c.res.calls) = k
          /\ \A j \in 1..k : c.res.calls[j].idx = j

\* C3: a Choice returns the result of the first parser, in listed order, that
\* succeeds from the entry position: the parsers before it were run and
\* failed, none after it is run, and the cursor ends where it left it.
C3_ChoiceFirstSuccess ==
  Done => Each("Choice", C3_ChoiceFirstSuccessAt)

\* A Choice of two parsers that both succeed from the entry, leaving the
\* cursor at different offsets.
C3_Witness ==
  /\ Done
  /\ parser.kind = "Choice"
  /\ mode = "Emit"
  /\ Len(parser.subs) = 2
  /\ Go(parser.subs[1], mode, entry).st = "ok"
  /\ Go(parser.subs[2], mode, entry).st = "ok"
  /\ Go(parser.subs[1], mode, entry).pos # Go(parser.subs[2], mode, entry).pos
  /\ result.pos = Go(parser.subs[1], mode, entry).pos

\* ------------------------------------------------------------ C4
\* What the parsers of tuple ps do from the j-th on, each run from where the
\* one before it left the cursor, the j-th from pos.
RECURSIVE InOrderFrom(_, _, _)
InOrderFrom(ps, j, pos) ==
  IF j > Len(ps)
    THEN <<>>
    ELSE LET r == Go(ps[j], mode, pos)
         IN <<r>> \o InOrderFrom(ps, j + 1, r.pos)

\* What C4 says of one invocation c.
C4_GroupShortCircuitAt(c) ==
  LET rs == InOrderFrom(c.p.subs, 1, c.from)
  IN \A k \in 1..Len(rs) :
       ((\A j \in 1..(k - 1) : rs[j].st = "ok") /\ rs[k].st = "err")
         => /\ c.res.st = "err"
            /\ c.res.err = rs[k].err
            /\ c.res.pos = rs[k].pos
            /\ Len(c.res.calls) = k
            /\ \A j \in 1..k : c.res.calls[j].idx = j

\* C4: when the k-th parser of a Group is the first to fail, the Group returns
\* that parser's error as it is, runs no parser after the k-th, and leaves the
\* cursor where the k-th parser stopped.
C4_GroupShortCircuit ==
  Done => Each("Group", C4_GroupShortCircuitAt)

\* A Group whose first parser succeeded, consuming a token, and whose second
\* failed after consuming another: the cursor is past both.
C4_Witness ==
  /\ Done
  /\ parser.kind = "Group"
  /\ Len(parser.subs) = 2
  /\ result.st = "err"
  /\ Len(result.calls) = 2
  /\ result.calls[1].res.pos > entry
  /\ result.calls[2].res.pos > result.calls[2].from
  /\ result.pos = result.calls[2].res.pos

\* ------------------------------------------------------------ C5
\* What c's terminator does when run from each offset from c's entry to the
\* end of the input.
Attempts(c) == [q \in c.from..Len(input) |-> Go(c.p.subs[1], mode, q)]

\* What C5 says of one invocation c.
C5_TakeUntilSuccessAt(c) ==
  c.res.st = "ok"
    => LET at == Attempts(c)
       IN \E q \in c.from..Len(input) :
            /\ \A r \in c.from..(q - 1) : at[r].st = "err"
            /\ at[q].st = "ok"
            /\ c.res.pos = at[q].pos
            /\ mode = "Emit"
                 => c.res.out = <<SubSeq(input, c.from + 1, q), at[q].out>>
            /\ mode = "Check" => c.res.out = Unit

\* C5: when a TakeUntil succeeds, the terminator failed at every position from
\* the entry up to some position, where it succeeded: the tokens accumulated
\* are the input's from the entry up to that position, in order, the second
\* output is the terminator's there, and the cursor is where the terminator
\* left it.
C5_TakeUntilSuccess ==
  Done => Each("TakeUntil", C5_TakeUntilSuccessAt)

\* A TakeUntil that skipped a token, then found a terminator that consumed a
\* token, and left input after it.
C5_Witness ==
  /\ Done
  /\ mode = "Emit"
  /\ parser.kind = "TakeUntil"
  /\ result.st = "ok"
  /\ Len(result.out[1]) >= 1
  /\ result.pos > entry + Len(result.out[1])
  /\ result.pos < Len(input)

\* A TakeUntil that accumulated two different tokens.
C5_WitnessOrder ==
  /\ Done
  /\ mode = "Emit"
  /\ parser.kind = "TakeUntil"
  /\ result.st = "ok"
  /\ Len(result.out[1]) = 2
  /\ result.out[1][1] # result.out[1][2]

\* ------------------------------------------------------------ C6
\* What C6 says of one invocation c.
C6_TakeUntilFailureAt(c) ==
  LET at == Attempts(c)
  IN /\ c.res.st = "err" <=> \A q \in c.from..Len(input) : at[q].st = "err"
     /\ c.res.st = "err"
          => /\ c.res.err = at[Len(input)].err
             /\ c.res.calls[Len(c.res.calls)].from = Len(input)

\* C6: a TakeUntil fails exactly when its terminator fails at every position
\* from the entry to the end of the input, and then returns the error of the
\* attempt made at the end of the input.
C6_TakeUntilFailure ==
  Done => Each("TakeUntil", C6_TakeUntilFailureAt)

\* A TakeUntil that failed after several attempts, the first of which failed
\* with another error than the one returned.
C6_Witness ==
  /\ Done
  /\ parser.kind = "TakeUntil"
  /\ result.st = "err"
  /\ Len(result.calls) >= 3
  /\ result.calls[1].res.err # result.err
  /\ result.calls[1].res.err.err.expected # {}

\* ------------------------------------------------------------ C7
\* The next Len(seq) tokens from offset pos are seq.
Matches(seq, pos) ==
  /\ pos + Len(seq) <= Len(input)
  /\ \A i \in 1..Len(seq) : input[pos + i] = seq[i]

\* The first offset from pos at which the token is missing or is not seq's.
Mismatch(seq, pos) ==
  CHOOSE k \in 0..(Len(seq) - 1) :
    /\ TokenAt(pos + k) # seq[k + 1]
    /\ \A j \in 0..(k - 1) : TokenAt(pos + j) = seq[j + 1]

\* What C7 says of one invocation c.
C7_JustAt(c) ==
  LET seq == c.p.seq
  IN IF Matches(seq, c.from)
       THEN /\ c.res.st = "ok"
            /\ c.res.pos = c.from + Len(seq)
            /\ mode = "Emit" => c.res.out = seq
       ELSE LET k == Mismatch(seq, c.from)
            IN /\ c.res.st = "err"
               /\ c.res.err.pos = c.from + k
               /\ c.res.err.err.span[1] = c.from + k
               /\ c.res.err.err.expected = {seq[k + 1]}
               /\ c.res.err.err.found = TokenAt(c.from + k)

\* C7: Just(seq) succeeds exactly when the next Len(seq) tokens are seq, and
\* then has consumed Len(seq) tokens and yields seq; otherwise it fails at the
\* first offset k where the token is missing or differs, with an error at
\* offset k that expects seq[k] alone and found the token there, or none at the
\* end of the input.
C7_Just ==
  Done => Each("Just", C7_JustAt)

\* A Just entered after the start of the input that matched its first token
\* and found another token than its second.
C7_Witness ==
  /\ Done
  /\ parser.kind = "Just"
  /\ entry > 0
  /\ result.st = "err"
  /\ result.err.pos = entry + 1
  /\ result.err.err.found # None
  /\ result.err.err.expected = {parser.seq[2]}
  /\ parser.seq[1] # parser.seq[2]

\* A Just of two tokens that matched.
C7_WitnessOk ==
  /\ Done
  /\ mode = "Emit"
  /\ parser.kind = "Just"
  /\ Len(parser.seq) = 2
  /\ result.st = "ok"
  /\ result.pos = entry + 2
  /\ result.out = parser.seq

\* ------------------------------------------------------------ C8
\* Empty run as invocation c succeeded and did not move the cursor.
EmptyNeverMoves(c) == c.res.st = "ok" /\ c.res.pos = c.from

\* End run as invocation c succeeded if at the end of the input, failed if
\* not, and did not move the cursor.
EndNeverMoves(c) ==
  /\ c.res.st = (IF TokenAt(c.from) = None THEN "ok" ELSE "err")
  /\ c.res.pos = c.from

\* End run as invocation c succeeded at the end of the input without moving
\* the cursor, or failed on a token with the cursor one past it.
EndMovesOnFailure(c) ==
  IF TokenAt(c.from) = None
    THEN c.res.st = "ok" /\ c.res.pos = c.from
    ELSE /\ c.res.st = "err"
         /\ c.res.pos = c.from + 1
         /\ c.res.err.pos = c.from
         /\ c.res.err.err.found = TokenAt(c.from)

\* C8 as claimed: End and Empty never move the cursor: End succeeds at the end
\* of the input, and fails on a token without consuming it; Empty succeeds.
C8_EndEmptyNeverMove ==
  Done => Each("End", EndNeverMoves) /\ Each("Empty", EmptyNeverMoves)

\* C8 amended: Empty succeeds and never moves the cursor; End succeeds at the
\* end of the input without moving the cursor, and on a token fails with the
\* cursor one past that token, which the error reports as found.
C8_EndEmptyCursor ==
  Done => Each("End", EndMovesOnFailure) /\ Each("Empty", EmptyNeverMoves)

\* An End run on a token: it failed, one token on.
C8_Witness ==
  /\ Done
  /\ parser.kind = "End"
  /\ entry < Len(input)
  /\ result.st = "err"
  /\ result.pos = entry + 1

\* ------------------------------------------------------------ C9
\* The parser of the other type over the same sequence.
Dual(p) == IF p.kind = "OneOf" THEN none_of(p.seq) ELSE one_of(p.seq)

\* What C9 says of one invocation c.
C9_OneOfNoneOfAt(c) ==
  LET dual == Go(Dual(c.p), mode, c.from)
      t == TokenAt(c.from)
  IN IF t = None
       THEN c.res.st = "err" /\ dual.st = "err"
       ELSE /\ (c.res.st = "ok") # (dual.st = "ok")
            /\ c.res.st \in {"ok", "err"}
            /\ dual.st \in {"ok", "err"}
            /\ (c.res.st = "ok")
                 <=> (IF c.p.kind = "OneOf" THEN t \in Range(c.p.seq)
                                            ELSE t \notin Range(c.p.seq))
            /\ c.res.st = "ok"
                 => /\ c.res.pos = c.from + 1
                    /\ mode = "Emit" => c.res.out = t

\* C9: on a token t, exactly one of OneOf(S) and NoneOf(S) succeeds, OneOf
\* when t is in S and NoneOf when it is not, and the one that succeeds has
\* consumed that one token and outputs it; at the end of the input both fail.
C9_OneOfNoneOf ==
  Done => Each("OneOf", C9_OneOfNoneOfAt) /\ Each("NoneOf", C9_OneOfNoneOfAt)

\* A NoneOf over both tokens run on a token: it failed, where OneOf succeeds.
C9_Witness ==
  /\ Done
  /\ parser.kind = "NoneOf"
  /\ Len(parser.seq) = 2
  /\ entry > 0
  /\ entry < Len(input)
  /\ result.st = "err"
  /\ Go(Dual(parser), mode, entry).st = "ok"

\* ------------------------------------------------------------ C10
\* The largest of a non-empty set of offsets.
Max(S) == CHOOSE p \in S : \A q \in S : q <= p

\* The position of the farthest of the errors of the calls cs.
Farthest(cs) == Max({cs[i].res.err.pos : i \in 1..Len(cs)})

\* The expected sets of those of the calls cs that failed at position far,
\* together.
ExpectedAt(cs, far) ==
  UNION {cs[i].res.err.err.expected :
           i \in {j \in 1..Len(cs) : cs[j].res.err.pos = far}}

\* The orders in which n parsers can be listed.
Orders(n) == {f \in [1..n -> 1..n] : \A i, j \in 1..n : f[i] = f[j] => i = j}

\* The tuple s listed in order f.
Listed(s, f) == [i \in 1..Len(s) |-> s[f[i]]]

\* What C10 says of one invocation c.
C10_ChoiceFarthestErrorAt(c) ==
  c.res.st = "err"
    => LET cs == c.res.calls
           far == Farthest(cs)
       IN /\ Len(cs) = Len(c.p.subs)
          /\ \A i \in 1..Len(cs) : cs[i].res.st = "err"
          /\ c.res.err.pos = far
          /\ c.res.err.err.expected = ExpectedAt(cs, far)
          /\ \A f \in Orders(Len(c.p.subs)) :
               LET other == ChoiceGo(Listed(c.p.subs, f), mode, c.from)
               IN /\ other.st = "err"
                  /\ other.err.pos = c.res.err.pos
                  /\ other.err.err.expected = c.res.err.err.expected

C10_Witness ==
  /\ Done
  /\ parser.kind = "Choice"
  /\ result.st = "err"
  /\ Len(result.calls) = 2
  /\ result.calls[1].res.err.pos > result.calls[2].res.err.pos
  /\ result.calls[2].res.err.err.expected # {}
  /\ result.calls[1].res.err.err.expected # {}
  /\ result.err.err.expected = result.calls[1].res.err.err.expected
  /\ result.calls[2].res.err.err.expected \cap result.err.err.expected = {}

ReachedTodo == Some("Todo", LAMBDA c : TRUE)

\* Invocation c, if it panicked, is a Todo or a parser whose last invocation
\* of a sub-parser panicked; if not, none of its sub-parsers panicked.
PanicFromBelow(c) ==
  LET calls == c.res.calls
  IN IF c.res.st = "panic"
       THEN \/ c.p.kind = "Todo"
            \/ /\ calls # <<>>
               /\ calls[Len(calls)].res.st = "panic"
               /\ c.res.pos = calls[Len(calls)].res.pos
       ELSE \A i \in 1..Len(calls) : calls[i].res.st # "panic"

\* C11: the parse panics if and only if the run reaches a Todo parser. A Todo
\* reached never returns an ordinary error: it panics, it is the last parser
\* invoked in the run (an enclosing Choice tries no later branch and rewinds
\* nothing), and every parser around it panics with it. A run that reaches no
\* Todo, also of a parser that holds one, returns Ok or Err.
C11_TodoAborts ==
  Done =>
    LET inv == Invocations
    IN /\ (result.st = "panic") <=> ReachedTodo
       /\ result.st \in {"ok", "err", "panic"}
       /\ \A i \in 1..Len(inv) :
            /\ PanicFromBelow(inv[i])
            /\ inv[i].p.kind = "Todo" =>
                 /\ inv[i].res.st = "panic"
                 /\ i = Len(inv)
                 /\ inv[i].res.pos = inv[i].from

\* A Choice of two parsers whose first is a Todo: the run panicked with the
\* second never tried.
C11_Witness ==
  /\ Done
  /\ parser.kind = "Choice"
  /\ Len(parser.subs) = 2
  /\ parser.subs[1].kind = "Todo"
  /\ result.st = "panic"
  /\ Len(result.calls) = 1

\* A Group whose first parser failed and whose second is a Todo: the run
\* returned the failure and no panic.
C11_WitnessUnreached ==
  /\ Done
  /\ parser.kind = "Group"
  /\ Len(parser.subs) = 2
  /\ parser.subs[2].kind = "Todo"
  /\ result.st = "err"
  /\ Len(result.calls) = 1

\* ------------------------------------------------------------ C12
\* How many tokens the parser of invocation c accepts before the one that
\* makes it fail: those of seq that match for a Just, none for the others.
Accepted(c) ==
  IF c.p.kind = "Just" THEN Mismatch(c.p.seq, c.from) ELSE 0

\* What C12 says of one invocation c, when it failed: the cursor is one past
\* the token that made it fail, or at the end of the input if the token was
\* missing, and so not back at the entry position unless nothing was read.
C12_NotRewoundAt(c) ==
  c.res.st = "err" =>
    LET k == Accepted(c)
    IN IF TokenAt(c.from + k) # None
         THEN /\ c.res.pos = c.from + k + 1
              /\ c.res.pos > c.from
              /\ c.res.pos = c.res.err.pos + 1
         ELSE /\ c.res.pos = Len(input)
              /\ c.res.pos = c.from + k
              /\ c.res.err.pos = Len(input)

\* C12: when Just, OneOf, NoneOf or Any fails, the cursor has consumed the
\* tokens the parser inspected and is not rewound: after a failure on a
\* token it is one past that token (entry + k + 1 for a Just that fails at
\* offset k), after a failure at the end of the input it is at the end.
C12_PrimitivesNotRewound ==
  Done =>
    /\ Each("Just", C12_NotRewoundAt)
    /\ Each("OneOf", C12_NotRewoundAt)
    /\ Each("NoneOf", C12_NotRewoundAt)
    /\ Each("Any", C12_NotRewoundAt)

\* A Just of two tokens that matched the first and failed on the second,
\* present, token: the cursor is two past the entry position.
C12_Witness ==
  /\ Done
  /\ parser.kind = "Just"
  /\ Len(parser.seq) = 2
  /\ result.st = "err"
  /\ result.err.err.found # None
  /\ result.pos = entry + 2

\* A OneOf that failed on a token: the cursor is one past it.
C12_WitnessOneOf ==
  /\ Done
  /\ parser.kind = "OneOf"
  /\ result.st = "err"
  /\ result.err.err.found # None
  /\ result.pos = entry + 1

\* An Any that failed at the end of the input: the cursor stays there.
C12_WitnessEnd ==
  /\ Done
  /\ parser.kind = "Any"
  /\ result.st = "err"
  /\ result.pos = Len(input)

\* ------------------------------------------------------------ C13
\* The loop run turn by turn ends with what TakeUntil::go returns.
TurnsAgreeWithGo ==
  Done => result = TakeUntilGo(parser.subs[1], mode, entry)

\* The terminator's attempts so far start at the entry position and then each
\* one token after the previous, there are at most one more of them than
\* tokens from the entry to the end of the input, and while the loop goes on
\* the cursor is one token on for each attempt made.
AttemptsAdvance ==
  pc # "ready" =>
    LET calls == result.calls
    IN /\ \A i \in 1..Len(calls) : calls[i].from = entry + i - 1
       /\ Len(calls) <= Len(input) - entry + 1
       /\ pc = "loop" => result.pos = entry + Len(calls)
       /\ pc = "done" => Len(calls) >= 1

\* C13: on a finite input, with a terminator whose every attempt ends,
\* TakeUntil ends: the attempts start at strictly increasing positions, each
\* one token after the previous, so that at most (tokens remaining + 1)
\* attempts are made, whether or not the terminator consumes anything when
\* it succeeds or fails.
C13_TakeUntilTerminates ==
  /\ []AttemptsAdvance
  /\ <>Done

\* A TakeUntil entered at the start of three tokens whose terminator
\* succeeded, without consuming, only at the end of the input: it made four
\* attempts, one more than tokens remained.
C13_Witness ==
  /\ Done
  /\ entry = 0
  /\ Len(input) = MaxInputLen
  /\ result.st = "ok"
  /\ Len(result.calls) = Len(input) + 1
  /\ result.calls[Len(result.calls)].res.pos = result.calls[Len(result.calls)].from

\* A TakeUntil whose terminator, a Choice, failed at every position leaving
\* the cursor where it started: one attempt for each token and one at the end.
C13_WitnessFails ==
  /\ Done
  /\ parser.subs[1].kind = "Choice"
  /\ Len(input) - entry >= 2
  /\ result.st = "err"
  /\ Len(result.calls) = Len(input) - entry + 1
  /\ \A i \in 1..Len(result.calls) :
       result.calls[i].res.pos = result.calls[i].from

====
